---- MODULE Spec2Model ----
(***************************************************************************)
(* Model of WebUIClient (src/Dockerfile, the Python part): the response    *)
(* normalizer _extract_response / _extract_sources / _parse_* /            *)
(* _deduplicate_sources and its caller generate_response.                  *)
(*                                                                         *)
(* Python values are tagged records.  A Python string is a sequence of     *)
(* characters; the characters of the model are tokens, and every string    *)
(* literal of the program ('url:', 'http', a dict key, ...) is one token.  *)
(* A dict is the sequence of its <<key, value>> pairs in insertion order.  *)
(* Numbers are integers.                                                   *)
(***************************************************************************)
EXTENDS Integers, Sequences, FiniteSets, TLC

None == [t |-> "none"]
Str(s) == [t |-> "str", s |-> s]
Num(n) == [t |-> "num", n |-> n]
List(l) == [t |-> "list", l |-> l]
Dict(d) == [t |-> "dict", d |-> d]

EmptyStr == Str(<<>>)
EmptyDict == Dict(<<>>)
EmptyList == List(<<>>)

Range(s) == {s[i] : i \in 1..Len(s)}

\* bool(v)
Truthy(v) ==
  CASE v.t = "none" -> FALSE
    [] v.t = "str"  -> v.s # <<>>
    [] v.t = "num"  -> v.n # 0
    [] v.t = "list" -> v.l # <<>>
    [] v.t = "dict" -> v.d # <<>>

\* a or b
Or(a, b) == IF Truthy(a) THEN a ELSE b

HasKey(d, k) == \E i \in 1..Len(d) : d[i][1] = k
Lookup(d, k) == d[CHOOSE i \in 1..Len(d) : d[i][1] = k][2]

\* `k in v` raises TypeError unless v is a dict, a list or a string
InOk(v) == v.t \in {"dict", "list", "str"}
In(k, v) ==
  CASE v.t = "dict" -> HasKey(v.d, k)
    [] v.t = "list" -> Str(<<k>>) \in Range(v.l)
    [] v.t = "str"  -> k \in Range(v.s)
    [] OTHER        -> FALSE

\* v[k] for a string k: KeyError / TypeError unless v is a dict holding k
SubOk(v, k) == v.t = "dict" /\ HasKey(v.d, k)
Sub(v, k) == Lookup(v.d, k)

\* v.get(k, dflt): AttributeError unless v is a dict
GetOk(v) == v.t = "dict"
Get(v, k, dflt) == IF HasKey(v.d, k) THEN Lookup(v.d, k) ELSE dflt

\* str.strip(): the whitespace characters
Whitespace == {" ", "\n", "\t"}

RECURSIVE LStrip(_)
LStrip(s) == IF s # <<>> /\ Head(s) \in Whitespace THEN LStrip(Tail(s)) ELSE s

RECURSIVE RStrip(_)
RStrip(s) ==
  IF s # <<>> /\ s[Len(s)] \in Whitespace THEN RStrip(SubSeq(s, 1, Len(s) - 1)) ELSE s

Strip(s) == RStrip(LStrip(s))

\* sep.join(parts)
RECURSIVE Join(_, _)
Join(parts, sep) ==
  IF parts = <<>> THEN <<>>
  ELSE IF Len(parts) = 1 THEN parts[1]
  ELSE parts[1] \o sep \o Join(Tail(parts), sep)

\* repr(v) and str(v)
RECURSIVE PyRepr(_)
PyRepr(v) ==
  CASE v.t = "none" -> <<"None">>
    [] v.t = "num"  -> <<ToString(v.n)>>
    [] v.t = "str"  -> <<"'">> \o v.s \o <<"'">>
    [] v.t = "list" ->
         <<"[">> \o Join([i \in 1..Len(v.l) |-> PyRepr(v.l[i])], <<", ">>) \o <<"]">>
    [] v.t = "dict" ->
         <<"{">>
         \o Join([i \in 1..Len(v.d) |->
                    <<"'", v.d[i][1], "'", ": ">> \o PyRepr(v.d[i][2])], <<", ">>)
         \o <<"}">>

PyStr(v) == IF v.t = "str" THEN v.s ELSE PyRepr(v)

\* str(hash(s)): the digits of the hash of s.  hash() is a function of the
\* text; the model takes it collision-free and writes the digits as the
\* hashed text behind a marker no joined key starts with.
StrHash(s) == <<"hash#">> \o s

(***************************************************************************)
(* _deduplicate_sources                                                    *)
(***************************************************************************)

\* key_parts of one source (lines 406-414); source is a dict
KeyParts(source) ==
  (IF Truthy(Get(source, "url", None))
     THEN << <<"url:">> \o PyStr(Sub(source, "url")) >> ELSE <<>>)
  \o (IF Truthy(Get(source, "title", None))
        THEN << <<"title:">> \o PyStr(Sub(source, "title")) >> ELSE <<>>)
  \o (IF Truthy(Get(source, "collection_id", None))
        THEN << <<"collection:">> \o PyStr(Sub(source, "collection_id")) >> ELSE <<>>)
  \o (IF Truthy(Get(source, "page", None))
        THEN << <<"page:">> \o PyStr(Sub(source, "page")) >> ELSE <<>>)

\* line 417, for the key_parts of the source
KeyOf(key_parts, source) ==
  IF key_parts # <<>> THEN Join(key_parts, <<"|">>) ELSE StrHash(PyStr(source))

DedupKey(source) == KeyOf(KeyParts(source), source)

RECURSIVE DedupLoop(_, _, _, _)

\* mutant: unique_sources.insert(0, source) instead of append
DedupKeyedPrepend(sources, i, seen, unique_sources, key) ==
  IF key # <<>> /\ key \notin seen
    THEN DedupLoop(sources, i + 1, seen \cup {key}, <<sources[i]>> \o unique_sources)
    ELSE DedupLoop(sources, i + 1, seen, unique_sources)

\* mutant: seen.add(key) is forgotten
DedupKeyedNoAdd(sources, i, seen, unique_sources, key) ==
  IF key # <<>> /\ key \notin seen
    THEN DedupLoop(sources, i + 1, seen, Append(unique_sources, sources[i]))
    ELSE DedupLoop(sources, i + 1, seen, unique_sources)

\* lines 419-421 for the source at index i, whose key is known
DedupKeyed(sources, i, seen, unique_sources, key) ==
  IF key # <<>> /\ key \notin seen
    THEN DedupLoop(sources, i + 1, seen \cup {key}, Append(unique_sources, sources[i]))
    ELSE DedupLoop(sources, i + 1, seen, unique_sources)

\* the loop of lines 403-426 from index i on
DedupLoop(sources, i, seen, unique_sources) ==
  IF i > Len(sources) THEN unique_sources
  ELSE IF ~GetOk(sources[i])
    THEN \* source.get raises: "If deduplication fails, still add the source"
         DedupLoop(sources, i + 1, seen, Append(unique_sources, sources[i]))
  ELSE DedupKeyed(sources, i, seen, unique_sources, DedupKey(sources[i]))

_deduplicate_sources(sources) == DedupLoop(sources, 1, {}, <<>>)

(***************************************************************************)
(* _parse_source_field                                                     *)
(***************************************************************************)

\* lines 268-273 and 287-292: a source object mapped to a record
SourceFromObject(item) ==
  Dict(<< <<"title", Get(item, "title", EmptyStr)>>,
          <<"url", Or(Or(Get(item, "url", EmptyStr), Get(item, "link", EmptyStr)),
                      Get(item, "source", EmptyStr))>>,
          <<"snippet", Or(Or(Get(item, "snippet", EmptyStr), Get(item, "content", EmptyStr)),
                          Get(item, "text", EmptyStr))>>,
          <<"score", Or(Get(item, "score", Num(0)), Get(item, "relevance", Num(0)))>> >>)

\* lines 278-283 and 298-303: a bare URL string as a record
SourceFromString(item) ==
  Dict(<< <<"url", item>>, <<"title", EmptyStr>>, <<"snippet", EmptyStr>>,
          <<"score", Num(0)>> >>)

\* lines 274-275 and 293-294: the record is appended if it has a url or a title
AppendIfMeaningful(sources, source) ==
  IF Truthy(Sub(source, "url")) \/ Truthy(Sub(source, "title"))
    THEN Append(sources, source)
    ELSE sources

\* s.startswith(prefix) for a literal prefix
StartsWith(s, prefix) == s # <<>> /\ Head(s) = prefix

\* the loop of lines 265-283 from element i on
RECURSIVE ParseItems(_, _, _)
ParseItems(items, i, sources) ==
  IF i > Len(items) THEN sources
  ELSE IF items[i].t = "dict"
    THEN ParseItems(items, i + 1, AppendIfMeaningful(sources, SourceFromObject(items[i])))
  ELSE IF items[i].t = "str"
    THEN ParseItems(items, i + 1, Append(sources, SourceFromString(items[i])))
  ELSE ParseItems(items, i + 1, sources)

\* No statement of the try block (262-303) raises on a JSON value, so the
\* handler of lines 305-306 is never entered and the list is the result.
_parse_source_field(source_field) ==
  IF ~Truthy(source_field) THEN <<>>
  ELSE IF source_field.t = "list" THEN ParseItems(source_field.l, 1, <<>>)
  ELSE IF source_field.t = "dict"
    THEN AppendIfMeaningful(<<>>, SourceFromObject(source_field))
  ELSE IF source_field.t = "str"
          /\ (StartsWith(source_field.s, "http") \/ StartsWith(source_field.s, "www"))
    THEN <<SourceFromString(source_field)>>
  ELSE <<>>

(***************************************************************************)
(* _parse_openwebui_sources                                                *)
(***************************************************************************)

\* A raised exception, as the value of the expression that raised it
Raise(e) == [t |-> "raise", e |-> e]
IsRaise(v) == v.t = "raise"

\* lst[i] for a 0-based index i >= 0: IndexError past the end
Index(lst, i) == IF i < Len(lst) THEN lst[i + 1] ELSE Raise("IndexError")

\* lines 325-327, 330-332, 335-337: the field normalised to a list
AsList(v) == IF v.t = "list" THEN v.l ELSE IF Truthy(v) THEN <<v>> ELSE <<>>

SnippetLimit == 300

\* line 354, for text = str(doc_text)
Snippet(text) ==
  IF Len(text) > SnippetLimit THEN SubSeq(text, 1, SnippetLimit) \o <<"...">> ELSE text

\* mutant: the bound of line 341 off by one (i <= len(metadata_list))
MetadataAtOffByOne(metadata_list, i) ==
  IF i <= Len(metadata_list) THEN Index(metadata_list, i) ELSE EmptyDict

\* line 341
MetadataAt(metadata_list, i) ==
  IF i < Len(metadata_list) THEN Index(metadata_list, i) ELSE EmptyDict

\* line 342
DistanceAt(distances, i) ==
  IF i < Len(distances) THEN Index(distances, i) ELSE Num(0)

\* line 355: 1 - distance if distance else 0
Score(distance) ==
  IF ~Truthy(distance) THEN Num(0)
  ELSE IF distance.t = "num" THEN Num(1 - distance.n)
  ELSE Raise("TypeError")

\* line 348
PageInfo(metadata) ==
  IF Truthy(Get(metadata, "page", None))
    THEN Str(<<"Page ">> \o PyStr(Get(metadata, "page", EmptyStr)))
    ELSE EmptyStr

\* lines 345-361: the record of a document, its metadata and its score
SourceEntry(doc_text, metadata, score, collection_id, collection_type) ==
  IF IsRaise(score) THEN score
  ELSE Dict(<<
    <<"title", Or(Or(Get(metadata, "title", EmptyStr), Get(metadata, "ti", EmptyStr)),
                  Get(metadata, "name", EmptyStr))>>,
    <<"url", Or(Get(metadata, "url", EmptyStr), Get(metadata, "hdl", EmptyStr))>>,
    <<"snippet", Str(Snippet(PyStr(doc_text)))>>,
    <<"score", score>>,
    <<"author", Or(Get(metadata, "author", EmptyStr), Get(metadata, "au", EmptyStr))>>,
    <<"page", PageInfo(metadata)>>,
    <<"collection_id", collection_id>>,
    <<"collection_type", collection_type>>,
    <<"metadata", metadata>> >>)

\* lines 341-361 for a document paired with metadata and distance: the
\* record, or the exception raised while building it
Paired(doc_text, metadata, distance, collection_id, collection_type) ==
  IF IsRaise(metadata) THEN metadata
  ELSE IF IsRaise(distance) THEN distance
  ELSE IF ~GetOk(metadata) THEN Raise("AttributeError")
  ELSE SourceEntry(doc_text, metadata, Score(distance), collection_id, collection_type)

ParsedSource(doc_text, i, metadata_list, distances, collection_id, collection_type) ==
  Paired(doc_text, MetadataAt(metadata_list, i), DistanceAt(distances, i),
         collection_id, collection_type)

\* The result of a parser that catches its own exceptions: the list it
\* returns and the exception its handler logged ("" when none was raised)
Parsed(ret, exc) == [ret |-> ret, exc |-> exc]

RECURSIVE DocLoop(_, _, _, _, _, _, _)

\* lines 363-365 for document i, and on to the next
KeepMeaningful(documents, i, metadata_list, distances, collection_id, collection_type, parsed, parsed_source) ==
  IF IsRaise(parsed_source) THEN Parsed(parsed, parsed_source.e)
  ELSE IF Truthy(Sub(parsed_source, "title"))
          \/ Truthy(Sub(parsed_source, "snippet"))
          \/ Truthy(Sub(parsed_source, "url"))
    THEN DocLoop(documents, i + 1, metadata_list, distances, collection_id,
                 collection_type, Append(parsed, parsed_source))
  ELSE DocLoop(documents, i + 1, metadata_list, distances, collection_id,
               collection_type, parsed)

\* the loop of lines 340-365 from document i (0-based) on
DocLoop(documents, i, metadata_list, distances, collection_id, collection_type, parsed) ==
  IF i >= Len(documents) THEN Parsed(parsed, "")
  ELSE KeepMeaningful(documents, i, metadata_list, distances, collection_id,
                      collection_type, parsed,
                      ParsedSource(documents[i + 1], i, metadata_list, distances,
                                   collection_id, collection_type))

\* lines 321-365 for one group, given its `source` sub-object
Group(source_item, source_info, parsed_sources) ==
  IF Truthy(source_info) /\ ~GetOk(source_info)
    THEN Parsed(parsed_sources, "AttributeError")
  ELSE DocLoop(AsList(Get(source_item, "document", EmptyList)), 0,
               AsList(Get(source_item, "metadata", EmptyList)),
               AsList(Get(source_item, "distances", EmptyList)),
               IF Truthy(source_info) THEN Get(source_info, "id", EmptyStr) ELSE EmptyStr,
               IF Truthy(source_info) THEN Get(source_info, "type", EmptyStr) ELSE EmptyStr,
               parsed_sources)

\* lines 316-365 for one element of sources_data, appended to parsed_sources
SourceItem(source_item, parsed_sources) ==
  IF source_item.t # "dict" THEN Parsed(parsed_sources, "")
  ELSE Group(source_item, Get(source_item, "source", EmptyDict), parsed_sources)

\* `for x in v`: TypeError unless v is a list, a string or a dict
IterOk(v) == v.t \in {"list", "str", "dict"}
Iter(v) ==
  CASE v.t = "list" -> v.l
    [] v.t = "str"  -> [i \in 1..Len(v.s) |-> Str(<<v.s[i]>>)]
    [] v.t = "dict" -> [i \in 1..Len(v.d) |-> Str(<<v.d[i][1]>>)]

RECURSIVE SourceItems(_, _, _)

\* one try block (314-368) holds the whole loop: the first exception ends it
NextItem(items, g, p) ==
  IF p.exc # "" THEN p ELSE SourceItems(items, g + 1, p.ret)

\* the loop of line 315 from element g on
SourceItems(items, g, parsed_sources) ==
  IF g > Len(items) THEN Parsed(parsed_sources, "")
  ELSE NextItem(items, g, SourceItem(items[g], parsed_sources))

_parse_openwebui_sources(sources_data) ==
  IF ~IterOk(sources_data) THEN Parsed(<<>>, "TypeError")
  ELSE SourceItems(Iter(sources_data), 1, <<>>)
(***************************************************************************)
(* json.loads, as _extract_sources_from_functions uses it                  *)
(***************************************************************************)

\* json.dumps(v): the JSON text of a value
RECURSIVE JsonDumps(_)
JsonDumps(v) ==
  CASE v.t = "none" -> <<"null">>
    [] v.t = "num"  -> <<ToString(v.n)>>
    [] v.t = "str"  -> <<"\"">> \o v.s \o <<"\"">>
    [] v.t = "list" ->
         <<"[">> \o Join([i \in 1..Len(v.l) |-> JsonDumps(v.l[i])], <<", ">>) \o <<"]">>
    [] v.t = "dict" ->
         <<"{">>
         \o Join([i \in 1..Len(v.d) |->
                    <<"\"", v.d[i][1], "\"", ": ">> \o JsonDumps(v.d[i][2])], <<", ">>)
         \o <<"}">>

\* Values found at a source-like field
UrlA == Str(<<"http", "://a">>)
UrlB == Str(<<"www", ".b">>)
TitleT == Str(<<"T">>)

SourceObjects ==
  { Dict(<< <<"title", TitleT>>, <<"url", UrlA>>, <<"score", Num(2)>> >>),
    Dict(<< <<"link", UrlB>>, <<"content", Str(<<"text">>)>> >>),
    Dict(<< <<"snippet", Str(<<"only a snippet">>)>> >>) }

FieldValues ==
  SourceObjects
  \cup { List(<<UrlA>>), List(<<EmptyStr>>), UrlB, Str(<<"see appendix">>), Num(5) }
  \cup { List(<<o, UrlB>>) : o \in SourceObjects }

\* The documents json.loads is asked to decode in the model: what a call's
\* arguments string may encode
JsonDocs ==
  { Dict(<< <<"sources", v>> >>) : v \in FieldValues }
  \cup { Dict(<< <<"query", Str(<<"q">>)>> >>), Num(5), Str(<<"sources">>), List(<<UrlA>>) }

\* json.loads(s): the document whose text s is; JSONDecodeError for a text
\* that is no document
JsonLoads(s) ==
  IF \E v \in JsonDocs : JsonDumps(v) = s
    THEN CHOOSE v \in JsonDocs : JsonDumps(v) = s
    ELSE Raise("JSONDecodeError")

\* lines 381-382 and 388-389
Decoded(arguments) ==
  IF arguments.t = "str" THEN JsonLoads(arguments.s) ELSE arguments

(***************************************************************************)
(* _extract_sources_from_functions                                         *)
(***************************************************************************)

\* lines 383-384 and 390-391: the sources of the decoded arguments
ArgsSources(args) ==
  IF IsRaise(args) THEN Parsed(<<>>, args.e)
  ELSE IF ~InOk(args) THEN Parsed(<<>>, "TypeError")
  ELSE IF ~In("sources", args) THEN Parsed(<<>>, "")
  ELSE IF ~SubOk(args, "sources") THEN Parsed(<<>>, "TypeError")
  ELSE Parsed(_parse_source_field(Sub(args, "sources")), "")

\* lines 379-384 for one element of a tool-call list
FuncSources(func) ==
  IF ~InOk(func) THEN Parsed(<<>>, "TypeError")
  ELSE IF ~In("function", func) THEN Parsed(<<>>, "")
  ELSE IF ~SubOk(func, "function") THEN Parsed(<<>>, "TypeError")
  ELSE IF ~InOk(Sub(func, "function")) THEN Parsed(<<>>, "TypeError")
  ELSE IF ~In("arguments", Sub(func, "function")) THEN Parsed(<<>>, "")
  ELSE IF ~SubOk(Sub(func, "function"), "arguments") THEN Parsed(<<>>, "TypeError")
  ELSE ArgsSources(Decoded(Sub(Sub(func, "function"), "arguments")))

RECURSIVE FuncLoop(_, _, _)

\* one try block (376-394) holds the whole loop: the first exception ends it
NextFunc(function_data, i, sources, p) ==
  IF p.exc # "" THEN Parsed(sources, p.exc)
  ELSE FuncLoop(function_data, i + 1, sources \o p.ret)

\* the loop of line 378 from element i on
FuncLoop(function_data, i, sources) ==
  IF i > Len(function_data) THEN Parsed(sources, "")
  ELSE NextFunc(function_data, i, sources, FuncSources(function_data[i]))

_extract_sources_from_functions(function_data) ==
  IF function_data.t = "list" THEN FuncLoop(function_data.l, 1, <<>>)
  ELSE IF function_data.t = "dict" /\ In("arguments", function_data)
    THEN ArgsSources(Decoded(Sub(function_data, "arguments")))
  ELSE Parsed(<<>>, "")

(***************************************************************************)
(* _extract_sources                                                        *)
(***************************************************************************)

\* line 213
source_fields ==
  <<"citations", "references", "links", "source_documents", "source_links", "metadata">>

\* The scan so far: the accumulated list, the warnings logged, and the
\* exception that left the try block of lines 207-248 ("" when none)
Scan(sources, log, exc) == [sources |-> sources, log |-> log, exc |-> exc]

Fail(acc, e) == Scan(acc.sources, acc.log, e)
Extend(acc, more) == Scan(acc.sources \o more, acc.log, "")

\* sources.extend(...) with the result of a parser that logs its own failure
ExtendParsed(acc, p, msg) ==
  Scan(acc.sources \o p.ret, IF p.exc # "" THEN Append(acc.log, msg) ELSE acc.log, "")

\* lines 209-210
ScanSources(response_data, acc) ==
  IF acc.exc # "" THEN acc
  ELSE IF ~InOk(response_data) THEN Fail(acc, "TypeError")
  ELSE IF ~In("sources", response_data) THEN acc
  ELSE IF ~SubOk(response_data, "sources") THEN Fail(acc, "TypeError")
  ELSE ExtendParsed(acc, _parse_openwebui_sources(Sub(response_data, "sources")),
                    "Failed to parse OpenWebUI sources")

\* the loops of lines 219-221 and 228-230 from field j on
RECURSIVE ScanFields(_, _, _)
ScanFields(container, j, acc) ==
  IF acc.exc # "" \/ j > Len(source_fields) THEN acc
  ELSE IF ~InOk(container) THEN Fail(acc, "TypeError")
  ELSE IF ~In(source_fields[j], container) THEN ScanFields(container, j + 1, acc)
  ELSE IF ~SubOk(container, source_fields[j]) THEN Fail(acc, "TypeError")
  ELSE ScanFields(container, j + 1,
                  Extend(acc, _parse_source_field(Sub(container, source_fields[j]))))

\* lines 226-230
ScanMessage(choice, acc) ==
  IF ~In("message", choice) THEN acc
  ELSE IF ~SubOk(choice, "message") THEN Fail(acc, "TypeError")
  ELSE ScanFields(Sub(choice, "message"), 1, acc)

\* lines 233-235
ScanFunctions(choice, acc) ==
  IF acc.exc # "" THEN acc
  ELSE IF ~(In("function_call", choice) \/ In("tool_calls", choice)) THEN acc
  ELSE IF ~GetOk(choice) THEN Fail(acc, "AttributeError")
  ELSE ExtendParsed(acc,
                    _extract_sources_from_functions(
                      Or(Get(choice, "function_call", None),
                         Get(choice, "tool_calls", EmptyList))),
                    "Failed to extract sources from functions")

\* lines 226-235 for one choice
ScanChoice(choice, acc) ==
  IF ~InOk(choice) THEN Fail(acc, "TypeError")
  ELSE ScanFunctions(choice, ScanMessage(choice, acc))

\* the loop of line 225 from element i on
RECURSIVE ChoiceLoop(_, _, _)
ChoiceLoop(choices, i, acc) ==
  IF acc.exc # "" \/ i > Len(choices) THEN acc
  ELSE ChoiceLoop(choices, i + 1, ScanChoice(choices[i], acc))

\* lines 224-235
ScanChoices(response_data, acc) ==
  IF acc.exc # "" THEN acc
  ELSE IF ~In("choices", response_data) THEN acc
  ELSE IF ~SubOk(response_data, "choices") THEN Fail(acc, "TypeError")
  ELSE IF ~IterOk(Sub(response_data, "choices")) THEN Fail(acc, "TypeError")
  ELSE ChoiceLoop(Iter(Sub(response_data, "choices")), 1, acc)

\* lines 238-240
ScanContext(response_data, acc) ==
  IF acc.exc # "" THEN acc
  ELSE IF ~(In("context", response_data) \/ In("retrieved_docs", response_data)) THEN acc
  ELSE IF ~GetOk(response_data) THEN Fail(acc, "AttributeError")
  ELSE Extend(acc, _parse_source_field(
                     Or(Get(response_data, "context", None),
                        Get(response_data, "retrieved_docs", None))))

\* lines 207-240: the four locations in their order
ScanAll(response_data) ==
  ScanContext(response_data,
    ScanChoices(response_data,
      ScanFields(response_data, 1,
        ScanSources(response_data, Scan(<<>>, <<>>, "")))))

\* The result of a call that may raise: the value returned, the messages
\* logged, and the exception that reached the caller ("" when it returned)
Outcome(ret, log, exc) == [ret |-> ret, log |-> log, raised |-> exc]

\* lines 242-253 after the scan
Scanned(response_data, acc) ==
  IF acc.exc = ""
    THEN Outcome(_deduplicate_sources(acc.sources), acc.log, "")
  ELSE IF response_data.t = "dict"
    THEN Outcome(<<>>, Append(acc.log, "Failed to extract sources"), "")
  ELSE \* line 252: response_data.keys() raises inside the handler
       Outcome(<<>>, Append(acc.log, "Failed to extract sources"), "AttributeError")

_extract_sources(response_data) == Scanned(response_data, ScanAll(response_data))
(***************************************************************************)
(* _extract_response                                                       *)
(***************************************************************************)

\* mutant: the content is returned without .strip()
StripOfUntrimmed(v) == IF v.t = "str" THEN v ELSE Raise("AttributeError")

\* v.strip(): AttributeError unless v is a string
StripOf(v) == IF v.t = "str" THEN Str(Strip(v.s)) ELSE Raise("AttributeError")

\* v[0] of a truthy value
First(v) ==
  CASE v.t = "list" -> Index(v.l, 0)
    [] v.t = "str"  -> Str(<<v.s[1]>>)
    [] v.t = "dict" -> Raise("KeyError")
    [] OTHER        -> Raise("TypeError")

\* lines 163-164
TextContent(choice) ==
  IF ~In("text", choice) THEN EmptyStr
  ELSE IF ~SubOk(choice, "text") THEN Raise("TypeError")
  ELSE StripOf(Sub(choice, "text"))

\* lines 161-164 for choice = response_data['choices'][0]
ChoiceContent(choice) ==
  IF IsRaise(choice) THEN choice
  ELSE IF ~InOk(choice) THEN Raise("TypeError")
  ELSE IF ~In("message", choice) THEN TextContent(choice)
  ELSE IF ~SubOk(choice, "message") THEN Raise("TypeError")
  ELSE IF ~InOk(Sub(choice, "message")) THEN Raise("TypeError")
  ELSE IF ~In("content", Sub(choice, "message")) THEN TextContent(choice)
  ELSE IF ~SubOk(Sub(choice, "message"), "content") THEN Raise("TypeError")
  ELSE StripOf(Sub(Sub(choice, "message"), "content"))

\* lines 176-179
MessageContent(message) ==
  IF message.t = "str" THEN Str(Strip(message.s))
  ELSE IF message.t = "dict" /\ In("content", message)
    THEN StripOf(Sub(message, "content"))
  ELSE EmptyStr

\* the elif chain of lines 167-179
FlatContent(response_data) ==
  IF In("response", response_data)
    THEN IF SubOk(response_data, "response")
           THEN StripOf(Sub(response_data, "response")) ELSE Raise("TypeError")
  ELSE IF In("content", response_data)
    THEN IF SubOk(response_data, "content")
           THEN StripOf(Sub(response_data, "content")) ELSE Raise("TypeError")
  ELSE IF In("message", response_data)
    THEN IF SubOk(response_data, "message")
           THEN MessageContent(Sub(response_data, "message")) ELSE Raise("TypeError")
  ELSE EmptyStr

\* lines 155-179: the content, or the exception raised while extracting it
Content(response_data) ==
  IF ~InOk(response_data) THEN Raise("TypeError")
  ELSE IF ~In("choices", response_data) THEN FlatContent(response_data)
  ELSE IF ~SubOk(response_data, "choices") THEN Raise("TypeError")
  ELSE IF ~Truthy(Sub(response_data, "choices")) THEN FlatContent(response_data)
  ELSE ChoiceContent(First(Sub(response_data, "choices")))

Extracted(content, sources, response_data) ==
  Dict(<< <<"content", content>>, <<"sources", List(sources)>>,
          <<"raw_response", response_data>> >>)

ParseError == <<"[ERROR: ", "Failed to parse API response", "]">>

\* lines 181-193, for the content and the outcome of _extract_sources
Assembled(response_data, content, sources) ==
  IF IsRaise(content) THEN Outcome(None, <<>>, content.e)
  ELSE IF sources.raised # "" THEN Outcome(None, sources.log, sources.raised)
  ELSE IF ~Truthy(content)
    THEN Outcome(Extracted(Str(Strip(PyStr(response_data))), sources.ret, response_data),
                 Append(sources.log, "Unknown response format, using raw response"), "")
  ELSE Outcome(Extracted(content, sources.ret, response_data), sources.log, "")

\* the try block of lines 154-193 (line 182 is not reached when the
\* content raised: Assembled does not look at the sources then)
ExtractBody(response_data) ==
  Assembled(response_data, Content(response_data), _extract_sources(response_data))

\* The builtin exceptions the statements above raise; all are Exception
Exceptions ==
  {"TypeError", "KeyError", "IndexError", "AttributeError", "ValueError",
   "JSONDecodeError"}

\* mutant: the handler of line 195 names the lookup errors only
HandledNarrow(response_data, body) ==
  IF body.raised \in {"TypeError", "KeyError", "IndexError"}
    THEN Outcome(Extracted(Str(ParseError), <<>>, response_data),
                 Append(body.log, "Failed to extract response content"), "")
    ELSE body

\* lines 195-201: the handler around the try block
Handled(response_data, body) ==
  IF body.raised \in Exceptions
    THEN Outcome(Extracted(Str(ParseError), <<>>, response_data),
                 Append(body.log, "Failed to extract response content"), "")
    ELSE body

_extract_response(response_data) == Handled(response_data, ExtractBody(response_data))
(***************************************************************************)
(* generate_response                                                       *)
(***************************************************************************)

BaseUrl == <<"http", "://localhost">>
Model == Str(<<"gemma3:4b">>)

\* The answer of session.post: status_code, text, and what .json() gives
\* (the decoded body, or the exception it raises on a body that is no JSON)
HttpResponse(status_code, text, json) ==
  [status_code |-> status_code, text |-> text, json |-> json]

ErrorContent(msg) == Str(<<"[ERROR: ">> \o msg \o <<"]">>)

\* What one pass through generate_response leaves: the dict returned, the
\* errors logged, the calls of _extract_response made, and the exception
\* that reached the caller ("" when it returned)
Reply(ret, log, calls, exc) == [ret |-> ret, log |-> log, calls |-> calls, raised |-> exc]

\* lines 124-132
OnTimeout ==
  Reply(Dict(<< <<"content", ErrorContent(<<"API request timed out">>)>>,
                <<"sources", EmptyList>>,
                <<"status", Str(<<"error">>)>>,
                <<"error", Str(<<"API request timed out">>)>> >>),
        <<"API request timed out">>, 0, "")

\* lines 133-141
OnConnectionError ==
  Reply(Dict(<< <<"content", ErrorContent(<<"Failed to connect to ">> \o BaseUrl)>>,
                <<"sources", EmptyList>>,
                <<"status", Str(<<"error">>)>>,
                <<"error", Str(<<"Failed to connect to ">> \o BaseUrl)>> >>),
        <<"Failed to connect">>, 0, "")

\* lines 142-150, for the exception a pass through the try block raised
OnException(reply) ==
  Reply(Dict(<< <<"content", ErrorContent(<<"Response generation failed: ", reply.raised>>)>>,
                <<"sources", EmptyList>>,
                <<"status", Str(<<"error">>)>>,
                <<"error", Str(<<"Response generation failed: ", reply.raised>>)>> >>),
        Append(reply.log, "Response generation failed"), reply.calls, "")

\* lines 114-122
OnStatus(response, elapsed_time) ==
  Reply(Dict(<< <<"content", ErrorContent(<<"API request failed - ",
                                            ToString(response.status_code)>>)>>,
                <<"sources", EmptyList>>,
                <<"status", Str(<<"error">>)>>,
                <<"error", Str(<<"API request failed with status ",
                                 ToString(response.status_code), ": ">>
                               \o response.text)>>,
                <<"response_time", Num(elapsed_time)>> >>),
        <<"API request failed">>, 0, "")

\* lines 99-112: extracted_data.update(...) appends the five keys
Updated(extracted_data, elapsed_time, target_collection) ==
  IF extracted_data.raised # ""
    THEN Reply(None, extracted_data.log, 1, extracted_data.raised)
    ELSE Reply(Dict(extracted_data.ret.d
                    \o << <<"status", Str(<<"success">>)>>,
                          <<"response_time", Num(elapsed_time)>>,
                          <<"model_used", Model>>,
                          <<"collection_used", target_collection>>,
                          <<"timestamp", Num(elapsed_time)>> >>),
               extracted_data.log, 1, "")

\* lines 96-112
OnSuccess(response, elapsed_time, target_collection) ==
  IF IsRaise(response.json) THEN Reply(None, <<>>, 0, response.json.e)
  ELSE Updated(_extract_response(response.json), elapsed_time, target_collection)

\* mutant: the status test of line 95 is dropped
HandleResponseAnyStatus(response, elapsed_time, target_collection) ==
  OnSuccess(response, elapsed_time, target_collection)

\* lines 95-122
HandleResponse(response, elapsed_time, target_collection) ==
  IF response.status_code = 200
    THEN OnSuccess(response, elapsed_time, target_collection)
    ELSE OnStatus(response, elapsed_time)

\* lines 142-150: whatever the try block raised is turned into a result
Caught(reply) ==
  IF reply.raised \in Exceptions \cup {"RequestException"}
    THEN OnException(reply)
    ELSE reply

(***************************************************************************)
(* The inputs of the model                                                 *)
(***************************************************************************)

MaxChoices == 2
MaxCalls == 2
MaxElapsed == 1

SeqsUpTo(S, n) == UNION {[1..k -> S] : k \in 0..n}

\* One retrieval group of the top-level `sources` field
GroupOne ==
  Dict(<< <<"source", Dict(<< <<"id", Str(<<"c1">>)>> >>)>>,
          <<"document", List(<<Str(<<"doc text">>)>>)>>,
          <<"metadata", List(<<Dict(<< <<"title", TitleT>>, <<"page", Num(2)>> >>)>>)>>,
          <<"distances", List(<<Num(1)>>)>> >>)

\* Fields a response carries beside its content
Extras ==
  { <<>>,
    << <<"citations", List(<<UrlA>>)>> >>,
    << <<"citations", List(<<EmptyStr>>)>> >>,
    << <<"sources", Num(5)>>, <<"links", UrlB>> >>,
    << <<"sources", List(<<GroupOne>>)>>,
       <<"metadata", Dict(<< <<"title", TitleT>>, <<"url", UrlA>> >>)>> >>,
    << <<"references", List(<<UrlA, UrlA>>)>>, <<"context", UrlB>> >>,
    << <<"context", Num(0)>>, <<"retrieved_docs", List(<<UrlA>>)>> >>,
    << <<"retrieved_docs", Dict(<< <<"link", UrlB>>, <<"text", Str(<<"t">>)>> >>)>> >> }

Message(content) == Dict(<< <<"message", Dict(<< <<"content", content>> >>)>> >>)

\* Elements of `choices`
BasicChoices ==
  { Message(Str(<<" ", "hi", "\n">>)),
    Message(Str(<<" ", " ">>)),
    Message(EmptyStr),
    Message(Num(5)),
    Dict(<< <<"text", Str(<<"t", " ">>)>> >>),
    Dict(<< <<"message", Dict(<< <<"role", Str(<<"assistant">>)>> >>)>>,
            <<"text", Str(<<"t">>)>> >>),
    Dict(<< <<"message", Dict(<< <<"content", Str(<<"hi">>)>>,
                                 <<"citations", List(<<UrlB>>)>> >>)>> >>),
    Dict(<< <<"message", Num(5)>> >>),
    Num(5) }

\* The arguments of a function call or tool call
MalformedJson == Str(<<"{", "\"", "sources">>)

Arguments ==
  { Str(JsonDumps(Dict(<< <<"sources", List(<<UrlA>>)>> >>))),
    Str(JsonDumps(Dict(<< <<"query", Str(<<"q">>)>> >>))),
    MalformedJson,
    Dict(<< <<"sources", List(<<Dict(<< <<"title", TitleT>> >>)>>)>> >>) }

ToolCall(arguments) ==
  Dict(<< <<"function", Dict(<< <<"name", Str(<<"search">>)>>,
                               <<"arguments", arguments>> >>)>> >>)

ToolChoices ==
  { Dict(<< <<"message", Dict(<< <<"content", Str(<<"hi">>)>> >>)>>,
            <<"tool_calls", List([i \in DOMAIN calls |-> ToolCall(calls[i])])>> >>)
      : calls \in SeqsUpTo(Arguments, MaxCalls) }
  \cup
  { Dict(<< <<"message", Dict(<< <<"content", Str(<<"hi">>)>> >>)>>,
            <<"function_call", Dict(<< <<"name", Str(<<"search">>)>>,
                                       <<"arguments", a>> >>)>> >>)
      : a \in Arguments }

\* Top-level content shapes without `choices`
FlatShapes ==
  { <<>>,
    << <<"response", Str(<<" ", "direct">>)>> >>,
    << <<"response", Num(5)>>, <<"content", Str(<<"c">>)>> >>,
    << <<"content", Str(<<"c">>)>>, <<"message", Str(<<"hello">>)>> >>,
    << <<"message", Str(<<"hello">>)>> >>,
    << <<"message", Dict(<< <<"content", Str(<<"m", " ">>)>> >>)>> >>,
    << <<"message", Num(5)>> >>,
    << <<"choices", EmptyList>>, <<"message", Str(<<"hello">>)>> >> }

\* Decoded bodies that are no JSON object
OddResponses ==
  { None, Num(5), EmptyList, List(<<Str(<<"choices">>)>>), Str(<<"sources">>),
    Str(<<"plain">>) }

Responses ==
  { Dict(<< <<"choices", List(cs)>> >> \o extra)
      : cs \in SeqsUpTo(BasicChoices, MaxChoices) \ {<<>>}, extra \in Extras }
  \cup { Dict(<< <<"choices", List(<<c>>)>> >> \o extra) : c \in ToolChoices, extra \in Extras }
  \cup { Dict(shape \o extra) : shape \in FlatShapes, extra \in Extras }
  \cup OddResponses

\* What session.post does with the request of this call: it raises
\* Timeout, ConnectionError or another exception, or it returns a response
\* after elapsed_time
Transport(kind, response, elapsed_time) ==
  [kind |-> kind, response |-> response, elapsed_time |-> elapsed_time]

HttpResponses ==
  { HttpResponse(200, <<"json">>, r) : r \in Responses }
  \cup { HttpResponse(200, <<"<html>">>, Raise("JSONDecodeError")) }
  \cup { HttpResponse(404, <<"Not Found">>, Raise("JSONDecodeError")),
         HttpResponse(500, <<"json">>, Dict(<< <<"message", Str(<<"hello">>)>> >>)) }

NoResponse == HttpResponse(0, <<>>, None)

Transports ==
  { Transport(k, NoResponse, 0) : k \in {"Timeout", "ConnectionError", "RequestException"} }
  \cup { Transport("returns", r, e) : r \in HttpResponses, e \in 0..MaxElapsed }

(***************************************************************************)
(* The client as a state machine: one call of generate_response           *)
(***************************************************************************)

VARIABLES pc, selfCollection, targetCollection, transport, result, logged,
          raised, extractCalls

clientVars ==
  <<pc, selfCollection, targetCollection, transport, result, logged, raised,
    extractCalls>>

\* __init__ (lines 24-43) with WEBUI_API_KEY set; COLLECTION may be unset
InitClient ==
  /\ pc = "idle"
  /\ selfCollection \in {None, Str(<<"default">>)}
  /\ targetCollection = None
  /\ transport \in Transports
  /\ result = None
  /\ logged = <<>>
  /\ raised = ""
  /\ extractCalls = 0

Return(reply) ==
  /\ pc' = "done"
  /\ result' = reply.ret
  /\ logged' = reply.log
  /\ raised' = reply.raised
  /\ extractCalls' = reply.calls

\* lines 67-83: up to the request
Call(collection) ==
  /\ pc = "idle"
  /\ targetCollection' = Or(collection, selfCollection)
  /\ IF ~Truthy(Or(collection, selfCollection))
       THEN Return(Caught(Reply(None, <<>>, 0, "ValueError")))
       ELSE /\ pc' = "posting"
            /\ UNCHANGED <<result, logged, raised, extractCalls>>
  /\ UNCHANGED <<selfCollection, transport>>

\* lines 86-90 raise requests.exceptions.Timeout
PostTimeout ==
  /\ pc = "posting"
  /\ transport.kind = "Timeout"
  /\ Return(OnTimeout)
  /\ UNCHANGED <<selfCollection, targetCollection, transport>>

\* lines 86-90 raise requests.exceptions.ConnectionError
PostConnectionError ==
  /\ pc = "posting"
  /\ transport.kind = "ConnectionError"
  /\ Return(OnConnectionError)
  /\ UNCHANGED <<selfCollection, targetCollection, transport>>

\* lines 86-90 raise another exception of requests
PostRaises ==
  /\ pc = "posting"
  /\ transport.kind = "RequestException"
  /\ Return(Caught(Reply(None, <<>>, 0, transport.kind)))
  /\ UNCHANGED <<selfCollection, targetCollection, transport>>

\* lines 86-90 return a response; lines 92-122
PostReturns ==
  /\ pc = "posting"
  /\ transport.kind = "returns"
  /\ Return(Caught(HandleResponse(transport.response, transport.elapsed_time,
                                  targetCollection)))
  /\ UNCHANGED <<selfCollection, targetCollection, transport>>

(***************************************************************************)
(* _deduplicate_sources on its own: any list of records                    *)
(***************************************************************************)

MaxSources == 3

Record(url, title, snippet) ==
  Dict(<< <<"title", title>>, <<"url", url>>, <<"snippet", snippet>>, <<"score", Num(0)>> >>)

\* Records with equal and different keys, records with no key part (the
\* hash fallback), a record whose url spells another record's joined key,
\* a record with collection and page, and an element that is no dict
DedupRecords ==
  { Record(Str(<<"x">>), EmptyStr, EmptyStr),
    Record(Str(<<"y">>), EmptyStr, EmptyStr),
    Record(Str(<<"x">>), EmptyStr, Str(<<"again">>)),
    Record(Str(<<"x">>), TitleT, EmptyStr),
    Record(Str(<<"x", "|", "title:", "T">>), EmptyStr, EmptyStr),
    Record(EmptyStr, EmptyStr, Str(<<"s1">>)),
    Record(EmptyStr, EmptyStr, Str(<<"s2">>)),
    Dict(<< <<"title", TitleT>>, <<"url", EmptyStr>>, <<"page", Str(<<"Page ", "2">>)>>,
            <<"collection_id", Str(<<"c1">>)>> >>),
    UrlA }

VARIABLES dedupPc, dedupIn, dedupOut, dedupTwice

dedupVars == <<dedupPc, dedupIn, dedupOut, dedupTwice>>

InitDedup ==
  /\ dedupPc = "input"
  /\ dedupIn \in SeqsUpTo(DedupRecords, MaxSources)
  /\ dedupOut = <<>>
  /\ dedupTwice = <<>>

IdleDedup ==
  /\ dedupPc = "off"
  /\ dedupIn = <<>>
  /\ dedupOut = <<>>
  /\ dedupTwice = <<>>

\* _deduplicate_sources(sources)
Deduplicate ==
  /\ dedupPc = "input"
  /\ dedupOut' = _deduplicate_sources(dedupIn)
  /\ dedupPc' = "once"
  /\ UNCHANGED <<dedupIn, dedupTwice>>

\* _deduplicate_sources on its own output
DeduplicateAgain ==
  /\ dedupPc = "once"
  /\ dedupTwice' = _deduplicate_sources(dedupOut)
  /\ dedupPc' = "twice"
  /\ UNCHANGED <<dedupIn, dedupOut>>

(***************************************************************************)
(* _parse_openwebui_sources on its own: ragged source groups               *)
(***************************************************************************)

MaxDocs == 3
MaxMeta == 2
MaxDist == 2

Absent == [t |-> "absent"]

\* A dict of the pairs whose value is present
Obj(pairs) == Dict(SelectSeq(pairs, LAMBDA p : p[2] # Absent))

MetaT == Dict(<< <<"title", TitleT>>, <<"page", Num(2)>> >>)

DocumentFields ==
  { List(l) : l \in SeqsUpTo({Str(<<"doc text">>), EmptyStr}, MaxDocs) }
  \cup { Str(<<"doc text">>), EmptyStr, Absent }

MetadataFields ==
  { List(l) : l \in SeqsUpTo({EmptyDict, MetaT}, MaxMeta) }
  \cup { MetaT, EmptyDict, Absent, List(<<Str(<<"no object">>)>>) }

DistancesFields ==
  { List(l) : l \in SeqsUpTo({Num(0), Num(2)}, MaxDist) }
  \cup { Num(2), Num(0), Absent, List(<<Str(<<"near">>)>>) }

SourceInfos ==
  { Absent, Str(<<"c1">>),
    Dict(<< <<"id", Str(<<"c1">>)>>, <<"type", Str(<<"collection">>)>> >>) }

Groups ==
  { Obj(<< <<"source", s>>, <<"document", d>>, <<"metadata", m>>, <<"distances", x>> >>)
      : s \in SourceInfos, d \in DocumentFields, m \in MetadataFields,
        x \in DistancesFields }

VARIABLES owuiPc, owuiIn, owuiOut

owuiVars == <<owuiPc, owuiIn, owuiOut>>

InitOwui ==
  /\ owuiPc = "input"
  /\ owuiIn \in {List(<<g>>) : g \in Groups} \cup {Num(5), List(<<Num(5), GroupOne>>)}
  /\ owuiOut = Parsed(<<>>, "")

IdleOwui ==
  /\ owuiPc = "off"
  /\ owuiIn = None
  /\ owuiOut = Parsed(<<>>, "")

\* _parse_openwebui_sources(sources_data)
ParseOpenwebui ==
  /\ owuiPc = "input"
  /\ owuiOut' = _parse_openwebui_sources(owuiIn)
  /\ owuiPc' = "parsed"
  /\ UNCHANGED owuiIn

(***************************************************************************)
(* _parse_source_field on its own: source objects and their aliases        *)
(***************************************************************************)

\* Source objects with each field and each alias present (empty, zero or
\* set) or absent
AliasObjects ==
  { Obj(<< <<"title", title>>, <<"url", url>>, <<"link", link>>, <<"source", source>>,
           <<"snippet", snippet>>, <<"content", content>>, <<"text", text>>,
           <<"score", score>>, <<"relevance", relevance>> >>)
      : title \in {Absent, TitleT},
        url \in {Absent, EmptyStr, UrlA},
        link \in {Absent, UrlB},
        source \in {Absent, Str(<<"src">>)},
        snippet \in {Absent, EmptyStr, Str(<<"s">>)},
        content \in {Absent, Str(<<"c">>)},
        text \in {Absent, Str(<<"t">>)},
        score \in {Absent, Num(0), Num(3)},
        relevance \in {Absent, Num(7)} }

VARIABLES fieldPc, fieldIn, fieldOut

fieldVars == <<fieldPc, fieldIn, fieldOut>>

\* source_field is one source object, or a list of one
InitField ==
  /\ fieldPc = "input"
  /\ fieldIn \in AliasObjects \cup {List(<<o>>) : o \in AliasObjects}
  /\ fieldOut = <<>>

IdleField ==
  /\ fieldPc = "off"
  /\ fieldIn = None
  /\ fieldOut = <<>>

\* _parse_source_field(source_field)
ParseSourceField ==
  /\ fieldPc = "input"
  /\ fieldOut' = _parse_source_field(fieldIn)
  /\ fieldPc' = "parsed"
  /\ UNCHANGED fieldIn

(***************************************************************************)
(* GET /users: getUsers and UserService.getAll                             *)
(***************************************************************************)

MaxRows == 3

JsNull == [t |-> "null"]
JsUndefined == [t |-> "undefined"]

\* The error object the mysql driver hands to the query callback
SqlError(code, message) == [t |-> "error", code |-> code, message |-> message]

\* The rows of a result set
Rows(l) == [t |-> "rows", l |-> l]

\* if (v): null and undefined are falsy, objects and arrays are truthy
JsTruthy(v) == v.t \notin {"null", "undefined"}

SqlErrors ==
  { SqlError("ER_NO_SUCH_TABLE", "Table 'Users' doesn't exist"),
    SqlError("ECONNREFUSED", "connect ECONNREFUSED"),
    SqlError("PROTOCOL_CONNECTION_LOST", "") }

UserRows ==
  { [id |-> 1, name |-> "ann"], [id |-> 2, name |-> "bob"], [id |-> 3, name |-> "cy"] }

\* result(err, data): the arguments a callback is called with
CallbackArgs(err, data) == [err |-> err, data |-> data]

\* user.service.js lines 18-25: the callback getAll gives to sql.query
GetAllCallback(err, res) ==
  IF JsTruthy(err)
    THEN CallbackArgs(JsNull, err)
    ELSE CallbackArgs(JsNull, res)

\* What the handler did with the response: the status (200 unless
\* res.status was called), the body sent, and the argument of next
Answer(status, body, nextArg) == [status |-> status, body |-> body, nextArg |-> nextArg]

\* user.service.js lines 41-42: err.message || "Error occurred ..."
ErrorMessage(err) ==
  [t |-> "message",
   message |-> IF err.message # "" THEN err.message
               ELSE "Error occurred while retrieving users."]

\* user.service.js lines 38-47: the callback getUsers gives to getAll
GetUsersCallback(args) ==
  IF JsTruthy(args.err)
    THEN Answer(500, ErrorMessage(args.err), args.err)
    ELSE Answer(200, args.data, JsUndefined)

VARIABLES usersPc, usersTable, queryResult, resStatus, resBody, sendCalls, nextCalls

usersVars == <<usersPc, usersTable, queryResult, resStatus, resBody, sendCalls, nextCalls>>

InitUsers ==
  /\ usersPc = "idle"
  /\ usersTable \in SeqsUpTo(UserRows, MaxRows)
  /\ queryResult = CallbackArgs(JsNull, JsUndefined)
  /\ resStatus = 200
  /\ resBody = JsUndefined
  /\ sendCalls = 0
  /\ nextCalls = 0

IdleUsers ==
  /\ usersPc = "off"
  /\ usersTable = <<>>
  /\ queryResult = CallbackArgs(JsNull, JsUndefined)
  /\ resStatus = 200
  /\ resBody = JsUndefined
  /\ sendCalls = 0
  /\ nextCalls = 0

\* GET /users is routed to getUsers, which calls getAll, which issues the query
GetUsers ==
  /\ usersPc = "idle"
  /\ usersPc' = "querying"
  /\ UNCHANGED <<usersTable, queryResult, resStatus, resBody, sendCalls, nextCalls>>

\* res.status(...).send(...) or res.send(...), and next(err) on the error branch
Respond(answer) ==
  /\ resStatus' = answer.status
  /\ resBody' = answer.body
  /\ sendCalls' = sendCalls + 1
  /\ nextCalls' = IF JsTruthy(answer.nextArg) THEN nextCalls + 1 ELSE nextCalls

\* the driver calls back with an error
QueryFails ==
  /\ usersPc = "querying"
  /\ \E err \in SqlErrors :
       /\ queryResult' = CallbackArgs(err, JsUndefined)
       /\ Respond(GetUsersCallback(GetAllCallback(err, JsUndefined)))
  /\ usersPc' = "done"
  /\ UNCHANGED usersTable

\* the driver calls back with the rows of Users
QuerySucceeds ==
  /\ usersPc = "querying"
  /\ queryResult' = CallbackArgs(JsNull, Rows(usersTable))
  /\ Respond(GetUsersCallback(GetAllCallback(JsNull, Rows(usersTable))))
  /\ usersPc' = "done"
  /\ UNCHANGED usersTable

(***************************************************************************)
(* Specifications                                                          *)
(***************************************************************************)

vars == <<clientVars, dedupVars, owuiVars, fieldVars, usersVars>>

IdleClient ==
  /\ pc = "off"
  /\ selfCollection = None
  /\ targetCollection = None
  /\ transport = Transport("off", NoResponse, 0)
  /\ result = None
  /\ logged = <<>>
  /\ raised = ""
  /\ extractCalls = 0

Init == InitClient /\ IdleDedup /\ IdleOwui /\ IdleField /\ IdleUsers

Next ==
  \/ \E collection \in {None, Str(<<"docs">>)} :
       Call(collection) /\ UNCHANGED <<dedupVars, owuiVars, fieldVars, usersVars>>
  \/ PostTimeout /\ UNCHANGED <<dedupVars, owuiVars, fieldVars, usersVars>>
  \/ PostConnectionError /\ UNCHANGED <<dedupVars, owuiVars, fieldVars, usersVars>>
  \/ PostRaises /\ UNCHANGED <<dedupVars, owuiVars, fieldVars, usersVars>>
  \/ PostReturns /\ UNCHANGED <<dedupVars, owuiVars, fieldVars, usersVars>>

Spec == Init /\ [][Next]_vars

DedupInit == InitDedup /\ IdleClient /\ IdleOwui /\ IdleField /\ IdleUsers

DedupNext ==
  \/ Deduplicate /\ UNCHANGED <<clientVars, owuiVars, fieldVars, usersVars>>
  \/ DeduplicateAgain /\ UNCHANGED <<clientVars, owuiVars, fieldVars, usersVars>>

DedupSpec == DedupInit /\ [][DedupNext]_vars

OwuiInit == InitOwui /\ IdleClient /\ IdleDedup /\ IdleField /\ IdleUsers

OwuiNext == ParseOpenwebui /\ UNCHANGED <<clientVars, dedupVars, fieldVars, usersVars>>

OwuiSpec == OwuiInit /\ [][OwuiNext]_vars

FieldInit == InitField /\ IdleClient /\ IdleDedup /\ IdleOwui /\ IdleUsers

FieldNext == ParseSourceField /\ UNCHANGED <<clientVars, dedupVars, owuiVars, usersVars>>

FieldSpec == FieldInit /\ [][FieldNext]_vars

UsersInit == InitUsers /\ IdleClient /\ IdleDedup /\ IdleOwui /\ IdleField

UsersNext ==
  \/ GetUsers /\ UNCHANGED <<clientVars, dedupVars, owuiVars, fieldVars>>
  \/ QueryFails /\ UNCHANGED <<clientVars, dedupVars, owuiVars, fieldVars>>
  \/ QuerySucceeds /\ UNCHANGED <<clientVars, dedupVars, owuiVars, fieldVars>>

UsersSpec == UsersInit /\ [][UsersNext]_vars
(***************************************************************************)
(* Properties of generate_response and _extract_response (Spec)            *)
(***************************************************************************)

\* generate_response posted the request and returned after an HTTP 200 whose
\* body decoded
Done200 ==
  /\ pc = "done"
  /\ Truthy(targetCollection)
  /\ transport.kind = "returns"
  /\ transport.response.status_code = 200
  /\ ~IsRaise(transport.response.json)

Raw == transport.response.json

Logged(msg) == msg \in Range(logged)

\* The response is an object whose choices[0].message.content is a
\* non-empty string
HasOpenAIContent(rd) ==
  /\ rd.t = "dict" /\ HasKey(rd.d, "choices")
  /\ Lookup(rd.d, "choices").t = "list"
  /\ Lookup(rd.d, "choices").l # <<>>
  /\ Lookup(rd.d, "choices").l[1].t = "dict"
  /\ HasKey(Lookup(rd.d, "choices").l[1].d, "message")
  /\ Lookup(Lookup(rd.d, "choices").l[1].d, "message").t = "dict"
  /\ HasKey(Lookup(Lookup(rd.d, "choices").l[1].d, "message").d, "content")
  /\ Lookup(Lookup(Lookup(rd.d, "choices").l[1].d, "message").d, "content").t = "str"
  /\ Lookup(Lookup(Lookup(rd.d, "choices").l[1].d, "message").d, "content").s # <<>>

OpenAIContent(rd) ==
  Lookup(Lookup(Lookup(rd.d, "choices").l[1].d, "message").d, "content").s

\* The characters of s between its first and its last non-whitespace one
Trimmed(s) ==
  LET keep == {i \in 1..Len(s) : s[i] \notin Whitespace}
  IN IF keep = {} THEN <<>>
     ELSE SubSeq(s, CHOOSE i \in keep : \A j \in keep : i <= j,
                    CHOOSE i \in keep : \A j \in keep : i >= j)

\* C1 as stated: for every response with a non-empty string at
\* choices[0].message.content, the returned content is that string trimmed.
C1_Original ==
  (Done200 /\ HasOpenAIContent(Raw))
    => Sub(result, "content") = Str(Trimmed(OpenAIContent(Raw)))

\* C1 amended: the returned content is choices[0].message.content trimmed
\* whenever that string is not empty after trimming (a string of whitespace
\* only takes the fallback of lines 185-187 instead).
C1_TrimmedContent ==
  (Done200 /\ HasOpenAIContent(Raw) /\ Trimmed(OpenAIContent(Raw)) # <<>>)
    => Sub(result, "content") = Str(Trimmed(OpenAIContent(Raw)))

C1_Witness ==
  /\ Done200 /\ HasOpenAIContent(Raw)
  /\ Trimmed(OpenAIContent(Raw)) # <<>>
  /\ Trimmed(OpenAIContent(Raw)) # OpenAIContent(Raw)
  /\ Sub(result, "content") = Str(Trimmed(OpenAIContent(Raw)))

\* The messages the except clauses of the extraction log
ExtractionFailures ==
  { "Failed to parse OpenWebUI sources", "Failed to extract sources from functions",
    "Failed to extract sources", "Failed to extract response content" }

IsParseError(r) ==
  /\ Sub(r, "content") = Str(ParseError)
  /\ Sub(r, "sources") = EmptyList

\* C2 as stated: whenever an exception occurs anywhere during content or
\* source extraction, the result is the fixed error content with no sources.
C2_Original ==
  (Done200 /\ \E msg \in ExtractionFailures : Logged(msg)) => IsParseError(result)

\* C2 amended: _extract_response never raises to its caller and always
\* returns content, sources and the raw response; the fixed error content
\* with an empty source list is returned exactly when an exception reaches
\* its own handler (raised by the content extraction, or escaping
\* _extract_sources); an exception caught inside the source extraction
\* leaves the content as extracted.
C2_NeverPropagates ==
  Done200 =>
    /\ extractCalls = 1
    /\ Sub(result, "status") = Str(<<"success">>)
    /\ Sub(result, "content").t = "str"
    /\ Sub(result, "sources").t = "list"
    /\ Sub(result, "raw_response") = Raw
    /\ Logged("Failed to extract response content") <=> IsParseError(result)
    /\ IsParseError(result)
         <=> \/ IsRaise(Content(Raw))
             \/ Logged("Failed to extract sources") /\ Raw.t # "dict"

\* the handler is entered because _extract_sources raised in its own handler
C2_Witness ==
  /\ Done200
  /\ Logged("Failed to extract sources")
  /\ Logged("Failed to extract response content")
  /\ ~IsRaise(Content(Raw))
  /\ IsParseError(result)

\* The records one scan location yields when it is scanned on its own and
\* its scan ends without an exception leaving it
LocationRecords(rd) ==
  (IF HasKey(rd.d, "sources")
     THEN Range(_parse_openwebui_sources(Lookup(rd.d, "sources")).ret) ELSE {})
  \cup UNION { IF HasKey(rd.d, source_fields[j])
                 THEN Range(_parse_source_field(Lookup(rd.d, source_fields[j])))
                 ELSE {} : j \in 1..Len(source_fields) }
  \cup (IF HasKey(rd.d, "choices") /\ Lookup(rd.d, "choices").t = "list"
          THEN UNION { IF ScanChoice(Lookup(rd.d, "choices").l[i], Scan(<<>>, <<>>, "")).exc = ""
                         THEN Range(ScanChoice(Lookup(rd.d, "choices").l[i],
                                               Scan(<<>>, <<>>, "")).sources)
                         ELSE {} : i \in 1..Len(Lookup(rd.d, "choices").l) }
          ELSE {})
  \cup (IF HasKey(rd.d, "context") \/ HasKey(rd.d, "retrieved_docs")
          THEN Range(_parse_source_field(Or(Get(rd, "context", None),
                                            Get(rd, "retrieved_docs", None))))
          ELSE {})

ResultSources == Sub(result, "sources").l

\* C3: a failure while scanning one location loses that location's records
\* only: every record of every other location is still returned (itself, or
\* the first record with its dedup key).
C3_Claim ==
  (Done200 /\ Raw.t = "dict" /\ ~IsParseError(result))
    => \A r \in LocationRecords(Raw) :
         \E k \in 1..Len(ResultSources) : DedupKey(ResultSources[k]) = DedupKey(r)

\* C6: every returned source record has a non-empty title, url or snippet.
C6_Claim ==
  Done200 =>
    \A k \in 1..Len(ResultSources) :
      \/ Truthy(Get(ResultSources[k], "title", EmptyStr))
      \/ Truthy(Get(ResultSources[k], "url", EmptyStr))
      \/ Truthy(Get(ResultSources[k], "snippet", EmptyStr))

\* The calls of the tool_calls list of choices[0], when there is one
ToolCalls(rd) ==
  IF /\ rd.t = "dict" /\ HasKey(rd.d, "choices")
     /\ Lookup(rd.d, "choices").t = "list"
     /\ Len(Lookup(rd.d, "choices").l) = 1
     /\ Lookup(rd.d, "choices").l[1].t = "dict"
     /\ HasKey(Lookup(rd.d, "choices").l[1].d, "tool_calls")
     /\ Lookup(Lookup(rd.d, "choices").l[1].d, "tool_calls").t = "list"
    THEN Lookup(Lookup(rd.d, "choices").l[1].d, "tool_calls").l
    ELSE <<>>

\* The sources a call carries in well-formed arguments
CallRecords(call) ==
  IF FuncSources(call).exc = "" THEN Range(FuncSources(call).ret) ELSE {}

\* C9: a call with malformed JSON arguments is skipped; the sources of the
\* other calls of the same payload are still returned.
C9_Claim ==
  (Done200 /\ ~Logged("Failed to extract sources") /\ ~IsParseError(result))
    => \A j \in 1..Len(ToolCalls(Raw)) :
         \A r \in CallRecords(ToolCalls(Raw)[j]) :
           \E k \in 1..Len(ResultSources) : DedupKey(ResultSources[k]) = DedupKey(r)

\* content a bracketed "[ERROR: ...]" string, sources the empty list,
\* status 'error' and an error field
ErrorShaped(r) ==
  /\ r.t = "dict"
  /\ HasKey(r.d, "content") /\ Lookup(r.d, "content").t = "str"
  /\ Len(Lookup(r.d, "content").s) >= 2
  /\ Head(Lookup(r.d, "content").s) = "[ERROR: "
  /\ Lookup(r.d, "content").s[Len(Lookup(r.d, "content").s)] = "]"
  /\ HasKey(r.d, "sources") /\ Lookup(r.d, "sources") = EmptyList
  /\ HasKey(r.d, "status") /\ Lookup(r.d, "status") = Str(<<"error">>)
  /\ HasKey(r.d, "error")

TransportFailed ==
  /\ Truthy(targetCollection)
  /\ \/ transport.kind \in {"Timeout", "ConnectionError"}
     \/ transport.kind = "returns" /\ transport.response.status_code # 200

\* C10: generate_response never raises; on a timeout, a connection failure
\* or a non-200 status it returns an error-shaped result without invoking
\* _extract_response, which is invoked only after an HTTP 200.
C10_ErrorShaped ==
  /\ raised = ""
  /\ (pc = "done" /\ TransportFailed) => (ErrorShaped(result) /\ extractCalls = 0)
  /\ extractCalls > 0 =>
       (transport.kind = "returns" /\ transport.response.status_code = 200)
  /\ pc = "done" => result.t = "dict"

C10_Witness ==
  /\ pc = "done"
  /\ Truthy(targetCollection)
  /\ transport.kind = "returns"
  /\ transport.response.status_code = 500
  /\ ~IsRaise(transport.response.json)
  /\ ErrorShaped(result)
  /\ extractCalls = 0

(***************************************************************************)
(* Properties of _deduplicate_sources (DedupSpec)                          *)
(***************************************************************************)

\* The k-th smallest element of a set of indices
Nth(S, k) == CHOOSE i \in S : Cardinality({j \in S : j <= i}) = k

\* The key parts of a record in the order url, title, collection_id, page
LabelledParts(r) ==
  SelectSeq(<< <<"url:", "url">>, <<"title:", "title">>,
               <<"collection:", "collection_id">>, <<"page:", "page">> >>,
            LAMBDA p : HasKey(r.d, p[2]) /\ Truthy(Lookup(r.d, p[2])))

JoinedKey(r) ==
  Join([k \in 1..Len(LabelledParts(r)) |->
          <<LabelledParts(r)[k][1]>> \o PyStr(Lookup(r.d, LabelledParts(r)[k][2]))],
       <<"|">>)

\* Two records have the same dedup key: the same joined key, or, when
\* neither has a key part, the same text
SameKey(a, b) ==
  IF JoinedKey(a) # <<>> \/ JoinedKey(b) # <<>>
    THEN JoinedKey(a) = JoinedKey(b)
    ELSE a = b

\* The indices of the input that hold the first record of their key (an
\* element that is no record has no key and is always kept)
FirstSeen ==
  { i \in 1..Len(dedupIn) :
      \/ dedupIn[i].t # "dict"
      \/ \A j \in 1..(i - 1) :
           dedupIn[j].t = "dict" => ~SameKey(dedupIn[j], dedupIn[i]) }

RecordA == Record(Str(<<"x">>), EmptyStr, EmptyStr)
RecordB == Record(Str(<<"y">>), EmptyStr, EmptyStr)
RecordC == Record(Str(<<"x">>), EmptyStr, Str(<<"again">>))

\* C4: the result of _deduplicate_sources is the subsequence of its input
\* that holds, for each dedup key, the first record with that key, in input
\* order; [A(url=x), B(url=y), C(url=x)] gives [A, B].
C4_FirstSeenOrder ==
  dedupPc \in {"once", "twice"} =>
    /\ Len(dedupOut) = Cardinality(FirstSeen)
    /\ \A k \in 1..Len(dedupOut) : dedupOut[k] = dedupIn[Nth(FirstSeen, k)]
    /\ dedupIn = <<RecordA, RecordB, RecordC>> => dedupOut = <<RecordA, RecordB>>

C4_Witness ==
  /\ dedupPc = "once"
  /\ dedupIn = <<RecordA, RecordB, RecordC>>
  /\ dedupOut = <<RecordA, RecordB>>

\* C5: deduplicating a deduplicated list returns the same list.
C5_Idempotent ==
  dedupPc = "twice" => dedupTwice = dedupOut

C5_Witness ==
  /\ dedupPc = "twice"
  /\ Len(dedupOut) = 2
  /\ Len(dedupIn) = 3
  /\ dedupTwice = dedupOut

(***************************************************************************)
(* Properties of _parse_openwebui_sources (OwuiSpec)                       *)
(***************************************************************************)

\* The parser ran on a list of one source group
OneGroup ==
  /\ owuiPc = "parsed"
  /\ owuiIn.t = "list"
  /\ Len(owuiIn.l) = 1
  /\ owuiIn.l[1].t = "dict"

\* A field of the group as the list the spec describes: absent is empty, a
\* scalar is a list of one
FieldList(g, name) ==
  IF ~HasKey(g.d, name) THEN <<>>
  ELSE IF Lookup(g.d, name).t = "list" THEN Lookup(g.d, name).l
  ELSE IF Truthy(Lookup(g.d, name)) THEN <<Lookup(g.d, name)>>
  ELSE <<>>

Docs == FieldList(owuiIn.l[1], "document")
Metas == FieldList(owuiIn.l[1], "metadata")
Dists == FieldList(owuiIn.l[1], "distances")

\* The entries have the types the spec gives them
WellTyped ==
  /\ HasKey(owuiIn.l[1].d, "source") => Lookup(owuiIn.l[1].d, "source").t = "dict"
  /\ \A i \in 1..Len(Metas) : Metas[i].t = "dict"
  /\ \A i \in 1..Len(Dists) : Dists[i].t = "num"

MetaFor(i) == IF i <= Len(Metas) THEN Metas[i] ELSE EmptyDict
DistFor(i) == IF i <= Len(Dists) THEN Dists[i] ELSE Num(0)

\* Document i has a snippet, a title or a url
Meaningful(i) ==
  \/ PyStr(Docs[i]) # <<>>
  \/ \E f \in {"title", "ti", "name", "url", "hdl"} :
       HasKey(MetaFor(i).d, f) /\ Truthy(Lookup(MetaFor(i).d, f))

KeptDocs == {i \in 1..Len(Docs) : Meaningful(i)}

\* C7: the score of document i is 1 - distances[i] whenever distances[i] is
\* present, a distance of 0 included, and is 0 exactly when no distance is
\* present for i.
C7_Claim ==
  (OneGroup /\ WellTyped /\ owuiOut.exc = "" /\ Len(owuiOut.ret) = Len(Docs)
     /\ (HasKey(owuiIn.l[1].d, "distances")
           => Lookup(owuiIn.l[1].d, "distances").t = "list"))
    => \A i \in 1..Len(Docs) :
         /\ i <= Len(Dists) => Sub(owuiOut.ret[i], "score") = Num(1 - Dists[i].n)
         /\ Sub(owuiOut.ret[i], "score") = Num(0) <=> i > Len(Dists)

StringField(rd, k) == HasKey(rd.d, k) /\ Lookup(rd.d, k).t = "str"

\* The response has a non-empty choices list
ChoicesFirst(rd) ==
  /\ HasKey(rd.d, "choices")
  /\ Lookup(rd.d, "choices").t = "list"
  /\ Lookup(rd.d, "choices").l # <<>>

FirstChoice(rd) == Lookup(rd.d, "choices").l[1]

\* An object's content field, when it is present and a string
HasStringContent(v) ==
  v.t = "dict" /\ HasKey(v.d, "content") /\ Lookup(v.d, "content").t = "str"

\* The fields the branches read have the types the spec gives them, a
\* top-level response field apart
BranchesTyped(rd) ==
  /\ ChoicesFirst(rd) =>
       /\ FirstChoice(rd).t = "dict"
       /\ HasKey(FirstChoice(rd).d, "message") =>
            /\ Lookup(FirstChoice(rd).d, "message").t = "dict"
            /\ HasKey(Lookup(FirstChoice(rd).d, "message").d, "content") =>
                 HasStringContent(Lookup(FirstChoice(rd).d, "message"))
       /\ HasKey(FirstChoice(rd).d, "text") => Lookup(FirstChoice(rd).d, "text").t = "str"
  /\ HasKey(rd.d, "choices") => Lookup(rd.d, "choices").t = "list"
  /\ HasKey(rd.d, "content") => Lookup(rd.d, "content").t = "str"
  /\ (HasKey(rd.d, "message") /\ Lookup(rd.d, "message").t = "dict"
        /\ HasKey(Lookup(rd.d, "message").d, "content"))
       => HasStringContent(Lookup(rd.d, "message"))

\* The string of the first branch whose condition matches, in the order
\* choices, response, content, message; empty when none matches
BranchContent(rd) ==
  IF ChoicesFirst(rd)
    THEN IF HasKey(FirstChoice(rd).d, "message")
            /\ HasStringContent(Lookup(FirstChoice(rd).d, "message"))
           THEN Lookup(Lookup(FirstChoice(rd).d, "message").d, "content").s
         ELSE IF HasKey(FirstChoice(rd).d, "text")
           THEN Lookup(FirstChoice(rd).d, "text").s
         ELSE <<>>
  ELSE IF StringField(rd, "response") THEN Lookup(rd.d, "response").s
  ELSE IF StringField(rd, "content") THEN Lookup(rd.d, "content").s
  ELSE IF StringField(rd, "message") THEN Lookup(rd.d, "message").s
  ELSE IF HasKey(rd.d, "message") /\ HasStringContent(Lookup(rd.d, "message"))
    THEN Lookup(Lookup(rd.d, "message").d, "content").s
  ELSE <<>>

\* The content the branch order gives: the trimmed string of the selected
\* branch, or the raw document as a string when that is empty
OrderedContent(rd) ==
  IF Trimmed(BranchContent(rd)) # <<>>
    THEN Trimmed(BranchContent(rd))
    ELSE Trimmed(PyStr(rd))

HelloResponse == Dict(<< <<"message", Str(<<"hello">>)>> >>)

\* C11: the content is that of the first branch whose condition matches, in
\* the order choices, response (a string), content, message, fallback; a
\* response field that is no string does not stop the later branches; and
\* {"message": "hello"} gives content "hello" with no sources.
C11_Claim ==
  (Done200 /\ Raw.t = "dict" /\ BranchesTyped(Raw))
    => /\ Sub(result, "content") = Str(OrderedContent(Raw))
       /\ Raw = HelloResponse
            => (Sub(result, "content") = Str(<<"hello">>) /\ ResultSources = <<>>)

\* The same statement for the responses whose response field, if any, is a
\* string: there the code follows the branch order
C11_StringResponse ==
  (Done200 /\ Raw.t = "dict" /\ BranchesTyped(Raw)
     /\ (HasKey(Raw.d, "response") => StringField(Raw, "response")))
    => /\ Sub(result, "content") = Str(OrderedContent(Raw))
       /\ Raw = HelloResponse
            => (Sub(result, "content") = Str(<<"hello">>) /\ ResultSources = <<>>)

(***************************************************************************)
(* Properties of _parse_source_field (FieldSpec)                           *)
(***************************************************************************)

\* The source object of the input
TheObject == IF fieldIn.t = "list" THEN fieldIn.l[1] ELSE fieldIn

\* The value of the first of the names that is a field of o, else dflt
FirstPresent(o, names, dflt) ==
  IF \E i \in 1..Len(names) : HasKey(o.d, names[i])
    THEN Lookup(o.d, names[CHOOSE i \in 1..Len(names) :
                             /\ HasKey(o.d, names[i])
                             /\ \A j \in 1..(i - 1) : ~HasKey(o.d, names[j])])
    ELSE dflt

\* The value of the first of the names whose field is non-empty and
\* non-zero, else the value of the last name, else dflt
FirstNonEmpty(o, names, dflt) ==
  IF \E i \in 1..Len(names) : HasKey(o.d, names[i]) /\ Truthy(Lookup(o.d, names[i]))
    THEN Lookup(o.d, names[CHOOSE i \in 1..Len(names) :
                             /\ HasKey(o.d, names[i]) /\ Truthy(Lookup(o.d, names[i]))
                             /\ \A j \in 1..(i - 1) :
                                  ~(HasKey(o.d, names[j]) /\ Truthy(Lookup(o.d, names[j])))])
  ELSE IF HasKey(o.d, names[Len(names)]) THEN Lookup(o.d, names[Len(names)])
  ELSE dflt

\* C12: the record of a source object takes url from the first present of
\* url, link, source; snippet from the first present of snippet, content,
\* text; score from the first present of score, relevance, else 0; and the
\* title as it is.  A present field wins even when it is empty or zero.
C12_Claim ==
  (fieldPc = "parsed" /\ Len(fieldOut) = 1) =>
    /\ Sub(fieldOut[1], "url") = FirstPresent(TheObject, <<"url", "link", "source">>, EmptyStr)
    /\ Sub(fieldOut[1], "snippet")
         = FirstPresent(TheObject, <<"snippet", "content", "text">>, EmptyStr)
    /\ Sub(fieldOut[1], "score") = FirstPresent(TheObject, <<"score", "relevance">>, Num(0))
    /\ Sub(fieldOut[1], "title") = FirstPresent(TheObject, <<"title">>, EmptyStr)

\* What the code does instead: an empty or zero value is passed over for
\* the next alias, and the record is kept when it has a url or a title
C12_FirstNonEmpty ==
  fieldPc = "parsed" =>
    /\ Len(fieldOut) <= 1
    /\ Len(fieldOut) = 1 <=>
         \/ Truthy(FirstNonEmpty(TheObject, <<"url", "link", "source">>, EmptyStr))
         \/ Truthy(FirstPresent(TheObject, <<"title">>, EmptyStr))
    /\ Len(fieldOut) = 1 =>
         /\ Sub(fieldOut[1], "url")
              = FirstNonEmpty(TheObject, <<"url", "link", "source">>, EmptyStr)
         /\ Sub(fieldOut[1], "snippet")
              = FirstNonEmpty(TheObject, <<"snippet", "content", "text">>, EmptyStr)
         /\ Sub(fieldOut[1], "score")
              = FirstNonEmpty(TheObject, <<"score", "relevance">>, Num(0))
         /\ Sub(fieldOut[1], "title") = FirstPresent(TheObject, <<"title">>, EmptyStr)

(***************************************************************************)
(* Properties of GET /users (UsersSpec)                                    *)
(***************************************************************************)

QueryFailed == JsTruthy(queryResult.err)

\* C13: a failed query is answered with status 500 and an error message,
\* and the query error is never sent as the user list; a successful query
\* is answered with the rows; every completed query is answered once.
C13_Claim ==
  usersPc = "done" =>
    /\ QueryFailed =>
         /\ resStatus = 500
         /\ resBody.t = "message"
         /\ resBody # queryResult.err
    /\ ~QueryFailed =>
         /\ resStatus = 200
         /\ resBody = queryResult.data
    /\ sendCalls = 1

\* The part of it the code does: one answer for every completed query, the
\* rows on success
C13_OneAnswer ==
  usersPc = "done" =>
    /\ sendCalls = 1
    /\ ~QueryFailed => (resStatus = 200 /\ resBody = Rows(usersTable))
====
